---------------------------- MODULE Spec2Model ----------------------------
(***************************************************************************)
(* A model of the BIPV demo application:                                   *)
(*   - the upload form's submit handler and fetchGHI  (src/unnamed/part_000)*)
(*   - the viewer: model load, BIPV estimator, area sum, render loop       *)
(*     (src/public/js/viewer.js, class BIPVViewer)                         *)
(*   - the upload gateway: multer disk storage and POST /upload            *)
(*     (src/public/js/viewer.js, lines 231-264)                            *)
(*                                                                         *)
(* Real numbers are kept in fixed point.  A JavaScript number is a record  *)
(* [k, v]: k = "fin" with the scaled integer v, k = "inf" with the sign v, *)
(* or k = "nan".  Units:                                                   *)
(*   GHI            tenths                                                 *)
(*   lengths, areas hundredths                                             *)
(*   incidence      hundredths                                             *)
(*   efficiency     hundredths                                             *)
(***************************************************************************)
EXTENDS Integers, Sequences, FiniteSets, TLC

VARIABLES
    \* Geometry Area Calculator, applied on its own
    positions, area, areaDone,
    \* viewer
    params, loadState, cityModel, totalPotential, traversed, overlay,
    rafPending, frames, lastRender, progressEvents,
    \* upload form
    run, inflight,
    \* upload gateway
    clock, reqs, uploadsDir

areaVars   == <<positions, area, areaDone>>
viewerVars == <<params, loadState, cityModel, totalPotential, traversed,
                overlay, rafPending, frames, lastRender, progressEvents>>
formVars   == <<run, inflight>>
serverVars == <<clock, reqs, uploadsDir>>
vars       == <<areaVars, viewerVars, formVars, serverVars>>

-----------------------------------------------------------------------------
(* Bounds *)

MaxPositions == 14
MaxMeshes == 2
FrameWrap == 3
MaxProgress == 1
MaxSubmits == 2
MaxClock == 2
MaxRequests == 2

-----------------------------------------------------------------------------
(* JavaScript numbers *)

Fin(n) == [k |-> "fin", v |-> n]
Inf(s) == [k |-> "inf", v |-> s]
NaN    == [k |-> "nan", v |-> 0]

Sign(n) == IF n > 0 THEN 1 ELSE IF n < 0 THEN -1 ELSE 0
Abs(n)  == IF n < 0 THEN -n ELSE n
Max(a, b) == IF a >= b THEN a ELSE b

\* a * b
FMul(a, b) ==
    IF a.k = "nan" \/ b.k = "nan" THEN NaN
    ELSE IF a.k = "fin" /\ b.k = "fin" THEN Fin(a.v * b.v)
    ELSE IF Sign(a.v) * Sign(b.v) = 0 THEN NaN
    ELSE Inf(Sign(a.v) * Sign(b.v))

\* a + b
FAdd(a, b) ==
    IF a.k = "nan" \/ b.k = "nan" THEN NaN
    ELSE IF a.k = "fin" /\ b.k = "fin" THEN Fin(a.v + b.v)
    ELSE IF a.k = "inf" /\ b.k = "inf"
         THEN (IF a.v = b.v THEN a ELSE NaN)
    ELSE IF a.k = "inf" THEN a ELSE b

\* ToBoolean of a number: 0 and NaN are falsy
Truthy(a) == ~(a.k = "nan" \/ (a.k = "fin" /\ a.v = 0))

RECURSIVE SqrtSearch(_, _, _)
SqrtSearch(n, lo, hi) ==
    IF lo >= hi THEN lo
    ELSE LET mid == (lo + hi + 1) \div 2
         IN  IF mid * mid <= n THEN SqrtSearch(n, mid, hi)
             ELSE SqrtSearch(n, lo, mid - 1)

\* floor(sqrt(n)), n >= 0
ISqrt(n) == SqrtSearch(n, 0, IF n < 46340 THEN n ELSE 46340)

-----------------------------------------------------------------------------
(* THREE.Vector3 / THREE.Triangle as calculateSurfaceArea uses them *)

\* positions[i] of a typed array, 0-based: a one-element set, or {} for the
\* undefined of a read past the end
At(buf, i) == IF i < Len(buf) THEN {buf[i + 1]} ELSE {}

\* a constructor argument of Vector3(x = 0, y = 0, z = 0)
Arg(s) == IF s = {} THEN 0 ELSE CHOOSE x \in s : TRUE

Vector3(x, y, z) == <<Arg(x), Arg(y), Arg(z)>>

Sub(a, b) == <<a[1] - b[1], a[2] - b[2], a[3] - b[3]>>
Cross(a, b) == <<a[2] * b[3] - a[3] * b[2],
                 a[3] * b[1] - a[1] * b[3],
                 a[1] * b[2] - a[2] * b[1]>>
Dot(a, b) == a[1] * b[1] + a[2] * b[2] + a[3] * b[3]

\* Triangle(a, b, c).getArea(): |(c - b) x (a - b)| * 0.5, in hundredths
TriangleArea(a, b, c) ==
    LET n == Cross(Sub(c, b), Sub(a, b))
    IN  ISqrt(Dot(n, n) * 10000) \div 2

\* the body of the for loop, one group starting at index i
GroupArea(buf, i) ==
    TriangleArea(Vector3(At(buf, i),     At(buf, i + 1), At(buf, i + 2)),
                 Vector3(At(buf, i + 3), At(buf, i + 4), At(buf, i + 5)),
                 Vector3(At(buf, i + 6), At(buf, i + 7), At(buf, i + 8)))

RECURSIVE AreaLoop(_, _, _)
AreaLoop(buf, i, acc) ==
    IF i < Len(buf) THEN AreaLoop(buf, i + 9, acc + GroupArea(buf, i))
    ELSE acc

\* calculateSurfaceArea(geometry), on geometry.attributes.position.array
calculateSurfaceArea(buf) == AreaLoop(buf, 0, 0)


-----------------------------------------------------------------------------
(* Strings are sequences of one-character strings *)

Digits == <<"0", "1", "2", "3", "4", "5", "6", "7", "8", "9">>
IsDigit(c) == \E d \in 1..10 : Digits[d] = c
DigitVal(c) == (CHOOSE d \in 1..10 : Digits[d] = c) - 1

Drop(s, n) == SubSeq(s, n + 1, Len(s))
StartsWith(s, pre) == Len(s) >= Len(pre) /\ SubSeq(s, 1, Len(pre)) = pre

RECURSIVE TrimStart(_)
TrimStart(s) == IF s # <<>> /\ s[1] = " " THEN TrimStart(Tail(s)) ELSE s

\* length of the longest prefix of digits
RECURSIVE DigitRun(_)
DigitRun(s) == IF s # <<>> /\ IsDigit(s[1]) THEN 1 + DigitRun(Tail(s)) ELSE 0

RECURSIVE DigitsValue(_, _)
DigitsValue(s, acc) ==
    IF s = <<>> THEN acc ELSE DigitsValue(Tail(s), 10 * acc + DigitVal(s[1]))

\* parseFloat of a string, in tenths: leading blanks, a sign, then either
\* "Infinity" or digits with an optional fraction; trailing text is ignored;
\* NaN when no number starts the string
ParseFloatStr(str) ==
    LET t    == TrimStart(str)
        neg  == t # <<>> /\ t[1] = "-"
        u    == IF t # <<>> /\ t[1] \in {"-", "+"} THEN Tail(t) ELSE t
        sgn  == IF neg THEN -1 ELSE 1
        ni   == DigitRun(u)
        rest == Drop(u, ni)
        nf   == IF rest # <<>> /\ rest[1] = "." THEN DigitRun(Tail(rest)) ELSE 0
        int  == DigitsValue(SubSeq(u, 1, ni), 0)
        frac == IF nf > 0 THEN DigitVal(rest[2]) ELSE 0
    IN  IF StartsWith(u, <<"I", "n", "f", "i", "n", "i", "t", "y">>) THEN Inf(sgn)
        ELSE IF ni = 0 /\ nf = 0 THEN NaN
        ELSE Fin(sgn * (10 * int + frac))

\* URLSearchParams.get: {} is null, {s} the string s
Null == {}
Str(s) == {s}
IsNull(x) == x = {}
TheStr(x) == CHOOSE s \in x : TRUE

\* parseFloat(x): null is converted to the string "null"
parseFloat(x) ==
    ParseFloatStr(IF IsNull(x) THEN <<"n", "u", "l", "l">> ELSE TheStr(x))

\* !modelFile: null and "" are falsy
FalsyStr(x) == IsNull(x) \/ TheStr(x) = <<>>

-----------------------------------------------------------------------------
(* The scene: what gltf.scene.traverse visits *)

\* upper 3x3 of matrixWorld, as rows
Identity3 == <<<<1, 0, 0>>, <<0, 1, 0>>, <<0, 0, 1>>>>
\* half a turn about x: local up points down
FlipX     == <<<<1, 0, 0>>, <<0, -1, 0>>, <<0, 0, -1>>>>
\* a quarter turn about x: local up points along +z
TiltX     == <<<<1, 0, 0>>, <<0, 0, -1>>, <<0, 1, 0>>>>
\* local up goes to (1, 0, -1), at a right angle to the sun (100, 500, 100)
Edgewise  == <<<<1, 1, 0>>, <<0, 0, 1>>, <<1, -1, 0>>>>

\* geometry.attributes.position.array
UnitTriangle == <<0, 0, 0, 1, 0, 0, 0, 1, 0>>
Square2      == <<0, 0, 0, 2, 0, 0, 2, 0, 2,  0, 0, 0, 2, 0, 2, 0, 0, 2>>

Child(isMesh, hasGeometry, hasPosition, buf, m) ==
    [isMesh |-> isMesh, hasGeometry |-> hasGeometry,
     hasPosition |-> hasPosition, positions |-> buf, matrixWorld |-> m]

MeshKinds ==
    { Child(TRUE,  TRUE,  TRUE,  Square2,      Identity3),
      Child(TRUE,  TRUE,  TRUE,  UnitTriangle, TiltX),
      Child(TRUE,  TRUE,  TRUE,  Square2,      FlipX),
      Child(TRUE,  TRUE,  TRUE,  Square2,      Edgewise),
      Child(TRUE,  TRUE,  FALSE, <<>>,         Identity3),
      Child(FALSE, FALSE, FALSE, <<>>,         Identity3) }

Scenes == UNION { [1..n -> MeshKinds] : n \in 0..MaxMeshes }

\* values of the ghi query parameter
GhiParams ==
    { Null, Str(<<>>), Str(<<"0">>), Str(<<"4", ".", "5">>),
      Str(<<"-", "2">>), Str(<<"3", "x">>), Str(<<"x", "3">>),
      Str(<<"I", "n", "f", "i", "n", "i", "t", "y">>),
      Str(<<"-", "I", "n", "f", "i", "n", "i", "t", "y">>) }

ModelParams == { Null, Str(<<>>), Str(<<"1", ".", "g">>) }

-----------------------------------------------------------------------------
(* Surface Irradiance Estimator *)

\* this.sunLight.position, set in setupLights
sunPosition == <<100, 500, 100>>

Det3(m) ==
      m[1][1] * (m[2][2] * m[3][3] - m[2][3] * m[3][2])
    - m[1][2] * (m[2][1] * m[3][3] - m[2][3] * m[3][1])
    + m[1][3] * (m[2][1] * m[3][2] - m[2][2] * m[3][1])

\* Matrix3.getNormalMatrix(matrixWorld) applied to (0, 1, 0): the second
\* column of the inverse transpose, which is (C12, C22, C32) / det with Cij
\* the cofactors; Matrix3.invert gives the zero matrix when det = 0.
\* normalize() then drops the factor 1 / |det|, so only the sign of det is
\* kept here.
RepresentativeNormal(m) ==
    LET d == Det3(m)
        c == << -(m[2][1] * m[3][3] - m[2][3] * m[3][1]),
                  m[1][1] * m[3][3] - m[1][3] * m[3][1],
                -(m[1][1] * m[2][3] - m[1][3] * m[2][1]) >>
    IN  IF d = 0 THEN <<0, 0, 0>>
        ELSE <<Sign(d) * c[1], Sign(d) * c[2], Sign(d) * c[3]>>

\* normal.dot(sunDirection) of the two normalized vectors, in hundredths;
\* Vector3.normalize leaves a zero vector zero
CosIncidence(m) ==
    LET n   == RepresentativeNormal(m)
        den == ISqrt(Dot(n, n) * Dot(sunPosition, sunPosition))
    IN  IF den = 0 THEN 0 ELSE (100 * Dot(n, sunPosition)) \div den

UnclampedIncidence(m) == CosIncidence(m)

\* const angle = Math.max(0, normal.dot(sunDirection))
IncidenceFactor(m) == Max(0, CosIncidence(m))

\* const efficiency = 0.15, in hundredths
efficiency == 15

\* parseFloat(...) || 5.0, in tenths
DefaultGhi == 50

\* const ghi = parseFloat(this.params.get('ghi')) || 5.0
GhiUsed(p) ==
    LET g == parseFloat(p.ghi) IN IF Truthy(g) THEN g ELSE Fin(DefaultGhi)

\* the traverse callback's guards: child.isMesh && child.geometry, then
\* geometry.attributes.position
Counted(child) == child.isMesh /\ child.hasGeometry /\ child.hasPosition

\* const energy = ghi * surfaceArea * angle * efficiency
Energy(ghi, child) ==
    FMul(FMul(FMul(ghi, Fin(calculateSurfaceArea(child.positions))),
              Fin(IncidenceFactor(child.matrixWorld))),
         Fin(efficiency))

RECURSIVE TraverseUntilSkip(_, _, _, _)
TraverseUntilSkip(model, ghi, i, acc) ==
    IF i > Len(model) THEN [total |-> acc, visited |-> i - 1]
    ELSE IF Counted(model[i])
         THEN TraverseUntilSkip(model, ghi, i + 1, FAdd(acc, Energy(ghi, model[i])))
         ELSE [total |-> acc, visited |-> i - 1]

\* this.cityModel.traverse(...) accumulating totalPotential
RECURSIVE Traverse(_, _, _, _)
Traverse(model, ghi, i, acc) ==
    IF i > Len(model) THEN [total |-> acc, visited |-> i - 1]
    ELSE IF Counted(model[i])
         THEN Traverse(model, ghi, i + 1, FAdd(acc, Energy(ghi, model[i])))
         ELSE Traverse(model, ghi, i + 1, acc)

\* Number.prototype.toFixed(2) of a total in units of 10^-7: hundredths
ToFixed2(f) ==
    IF f.k # "fin" THEN f
    ELSE Fin(Sign(f.v) * ((Abs(f.v) + 50000) \div 100000))

NoOverlay == [written |-> FALSE, ghi |-> NaN, total |-> NaN]

\* updateOverlay(`GHI Value: ${ghi} ...: ${totalPotential.toFixed(2)} kWh`)
updateOverlay(ghi, total) ==
    [written |-> TRUE, ghi |-> ghi, total |-> ToFixed2(total)]


-----------------------------------------------------------------------------
(* States in which a component is not running *)

AreaIdle == positions = <<>> /\ area = 0 /\ areaDone = TRUE

ViewerIdle ==
    /\ params = [model |-> Null, ghi |-> Null]
    /\ loadState = "none" /\ cityModel = <<>>
    /\ totalPotential = Fin(0) /\ traversed = 0 /\ overlay = NoOverlay
    /\ rafPending = FALSE /\ frames = 0 /\ lastRender = "ok"
    /\ progressEvents = 0

-----------------------------------------------------------------------------
(* Geometry Area Calculator on its own *)

Coords == {0, 1}
Buffers == UNION { [1..n -> Coords] : n \in 0..MaxPositions }

AreaInit == positions \in Buffers /\ area = 0 /\ areaDone = FALSE

ComputeArea ==
    /\ ~areaDone
    /\ area' = calculateSurfaceArea(positions)
    /\ areaDone' = TRUE
    /\ UNCHANGED <<positions, viewerVars, formVars, serverVars>>

-----------------------------------------------------------------------------
(* The viewer, from the end of the BIPVViewer constructor *)

\* loadModel(): nothing is requested without a model parameter
ViewerInit ==
    /\ params \in [model : ModelParams, ghi : GhiParams]
    /\ loadState = IF FalsyStr(params.model) THEN "none" ELSE "pending"
    /\ cityModel = <<>>
    /\ totalPotential = Fin(0) /\ traversed = 0
    /\ overlay = NoOverlay          \* createOverlay(): an empty element
    /\ rafPending = TRUE /\ frames = 1 % FrameWrap /\ lastRender = "ok"   \* first animate()
    /\ progressEvents = 0

\* calculateBIPVPotential(), with this.cityModel set
calculateBIPVPotential(model, p) ==
    LET ghi == GhiUsed(p)
        r   == Traverse(model, ghi, 1, Fin(0))
    IN  [overlay |-> updateOverlay(ghi, r.total),
         total |-> r.total, visited |-> r.visited]

\* the loader's progress callback: a log line
onProgress ==
    /\ loadState = "pending"
    /\ progressEvents < MaxProgress
    /\ progressEvents' = progressEvents + 1
    /\ UNCHANGED <<params, loadState, cityModel, totalPotential, traversed,
                   overlay, rafPending, frames, lastRender>>
    /\ UNCHANGED <<areaVars, formVars, serverVars>>

\* the loader's success callback
onLoad ==
    /\ loadState = "pending"
    /\ \E scene \in Scenes :
         LET r == calculateBIPVPotential(scene, params)
         IN  /\ cityModel' = scene
             /\ totalPotential' = r.total
             /\ traversed' = r.visited
             /\ overlay' = r.overlay
    /\ loadState' = "loaded"
    /\ UNCHANGED <<params, rafPending, frames, lastRender, progressEvents>>
    /\ UNCHANGED <<areaVars, formVars, serverVars>>

onErrorShowsTotal ==
    /\ loadState = "pending"
    /\ loadState' = "failed"
    /\ overlay' = updateOverlay(GhiUsed(params), totalPotential)
    /\ UNCHANGED <<params, cityModel, totalPotential, traversed,
                   rafPending, frames, lastRender, progressEvents>>
    /\ UNCHANGED <<areaVars, formVars, serverVars>>

\* the loader's error callback: logs only
onError ==
    /\ loadState = "pending"
    /\ loadState' = "failed"
    /\ UNCHANGED <<params, cityModel, totalPotential, traversed, overlay,
                   rafPending, frames, lastRender, progressEvents>>
    /\ UNCHANGED <<areaVars, formVars, serverVars>>

RescheduledAfterRender(renderOk) == renderOk

\* requestAnimationFrame is animate's first statement: the next frame is
\* scheduled whether or not controls.update / renderer.render throw
Rescheduled(renderOk) == TRUE

animate ==
    /\ rafPending
    /\ \E renderOk \in BOOLEAN :
         /\ rafPending' = Rescheduled(renderOk)
         /\ lastRender' = IF renderOk THEN "ok" ELSE "threw"
    /\ frames' = (frames + 1) % FrameWrap
    /\ UNCHANGED <<params, loadState, cityModel, totalPotential, traversed,
                   overlay, progressEvents>>
    /\ UNCHANGED <<areaVars, formVars, serverVars>>


-----------------------------------------------------------------------------
(* The upload form: the submit handler and fetchGHI *)

SubmitIds == 1..MaxSubmits

\* how fetch(apiUrl) settles
GhiResponses == {"network", "status", "ok"}

\* what response.json() and the property path give: a body that is no JSON,
\* JSON without properties.parameter.ALLSKY_SFC_SW_DWN, JSON without the
\* date key, or the value under the date key (-999 is the API's fill value)
GhiValues == {Fin(0), Fin(45), Fin(-9990)}
GhiBodies ==
    { [kind |-> k, v |-> NaN] : k \in {"malformed", "shape", "nokey"} }
        \cup { [kind |-> "value", v |-> x] : x \in GhiValues }

\* how fetch('/upload') settles: a rejection, or an HTTP status
UploadOutcomes ==
    { [rejected |-> TRUE, status |-> 0] }
        \cup { [rejected |-> FALSE, status |-> st] : st \in {200, 400, 500} }

Absent == {}
Returned(v) == [settled |-> TRUE, threw |-> FALSE, value |-> v]
Thrown      == [settled |-> TRUE, threw |-> TRUE, value |-> Absent]
Awaiting    == [settled |-> FALSE, threw |-> FALSE, value |-> Absent]

\* fetchGHI up to the first await's result: catch and the else branch
\* return null, an ok response goes on to response.json()
fetchGHIResponse(outcome) ==
    IF outcome = "ok" THEN Awaiting ELSE Returned(Absent)

fetchGHIBodyUncaught(body) ==
    IF body.kind \in {"malformed", "shape"} THEN Thrown
    ELSE IF body.kind = "nokey" THEN Returned(Absent)
    ELSE Returned({body.v})

\* fetchGHI from response.json() on: a rejected json() and a TypeError on
\* the property path are caught and give null, a missing date key gives
\* undefined, otherwise the value is returned
fetchGHIBody(body) ==
    IF body.kind \in {"malformed", "shape", "nokey"} THEN Returned(Absent)
    ELSE Returned({body.v})

\* !ghi
NotGhi(v) == v = Absent \/ ~Truthy(CHOOSE x \in v : TRUE)

NewRun ==
    [pc |-> "idle", hasFile |-> FALSE, ghiOutcome |-> "none",
     ghi |-> Awaiting, ghiIssued |-> 0, uploadIssued |-> 0,
     uploadStatus |-> 0, uploadRejected |-> FALSE, alerted |-> FALSE, navigated |-> FALSE,
     caught |-> FALSE]

FormIdle == run = [i \in SubmitIds |-> NewRun] /\ inflight = {}

FormInit == FormIdle

\* the handler, resumed with the settled result r of await fetchGHI(...)
AfterGHI(i, r, why) ==
    LET me == [run[i] EXCEPT !.ghi = r, !.ghiOutcome = why]
    IN  IF r.threw
        THEN /\ run' = [run EXCEPT ![i] = [me EXCEPT !.caught = TRUE, !.pc = "done"]]
             /\ inflight' = inflight \ {<<i, "ghi">>}
        ELSE IF NotGhi(r.value)
        THEN /\ run' = [run EXCEPT ![i] = [me EXCEPT !.alerted = TRUE, !.pc = "done"]]
             /\ inflight' = inflight \ {<<i, "ghi">>}
        ELSE /\ run' = [run EXCEPT ![i] =
                           [me EXCEPT !.uploadIssued = @ + 1, !.pc = "upload"]]
             /\ inflight' = (inflight \ {<<i, "ghi">>}) \cup {<<i, "upload">>}

SubmitBoth(i) ==
    /\ run[i].pc = "idle"
    /\ \E f \in BOOLEAN :
         run' = [run EXCEPT ![i] = [@ EXCEPT !.hasFile = f, !.ghiIssued = @ + 1,
                                              !.uploadIssued = @ + 1,
                                              !.pc = "ghiFetch"]]
    /\ inflight' = inflight \cup {<<i, "ghi">>, <<i, "upload">>}
    /\ UNCHANGED <<areaVars, viewerVars, serverVars>>

\* submit: the form is read, fetchGHI issues its GET and the handler waits
Submit(i) ==
    /\ run[i].pc = "idle"
    /\ \E f \in BOOLEAN :
         run' = [run EXCEPT ![i] = [@ EXCEPT !.hasFile = f, !.ghiIssued = @ + 1,
                                              !.pc = "ghiFetch"]]
    /\ inflight' = inflight \cup {<<i, "ghi">>}
    /\ UNCHANGED <<areaVars, viewerVars, serverVars>>

\* fetch(apiUrl) settles
GhiResponded(i) ==
    /\ run[i].pc = "ghiFetch"
    /\ \E outcome \in GhiResponses :
         LET r == fetchGHIResponse(outcome)
         IN  IF r.settled
             THEN AfterGHI(i, r, outcome)
             ELSE /\ run' = [run EXCEPT ![i].pc = "ghiJson"]
                  /\ UNCHANGED inflight
    /\ UNCHANGED <<areaVars, viewerVars, serverVars>>

\* response.json() settles
GhiBody(i) ==
    /\ run[i].pc = "ghiJson"
    /\ \E body \in GhiBodies :
         AfterGHI(i, fetchGHIBody(body), body.kind)
    /\ UNCHANGED <<areaVars, viewerVars, serverVars>>

\* fetch('/upload') settles: a rejection goes to the catch block, a status
\* that is not ok ends the handler silently, an ok one goes on to json()
UploadResponded(i) ==
    /\ run[i].pc = "upload"
    /\ \E o \in UploadOutcomes :
         LET st == o.status
         IN
         IF o.rejected
         THEN /\ run' = [run EXCEPT ![i] = [@ EXCEPT !.uploadRejected = TRUE,
                                                      !.caught = TRUE, !.pc = "done"]]
              /\ inflight' = inflight \ {<<i, "upload">>}
         ELSE IF st \in 200..299
         THEN /\ run' = [run EXCEPT ![i] = [@ EXCEPT !.uploadStatus = st,
                                                      !.pc = "uploadJson"]]
              /\ UNCHANGED inflight
         ELSE /\ run' = [run EXCEPT ![i] = [@ EXCEPT !.uploadStatus = st,
                                                      !.pc = "done"]]
              /\ inflight' = inflight \ {<<i, "upload">>}
    /\ UNCHANGED <<areaVars, viewerVars, serverVars>>

\* the upload's response.json() settles: window.location.href is set, or
\* the rejection is caught
UploadBody(i) ==
    /\ run[i].pc = "uploadJson"
    /\ \E parsed \in BOOLEAN :
         run' = [run EXCEPT ![i] = [@ EXCEPT !.navigated = parsed,
                                              !.caught = ~parsed, !.pc = "done"]]
    /\ inflight' = inflight \ {<<i, "upload">>}
    /\ UNCHANGED <<areaVars, viewerVars, serverVars>>

-----------------------------------------------------------------------------
(* The upload gateway: multer disk storage and POST /upload *)

RequestIds == 1..MaxRequests

\* file.originalname of the uploads tried
OriginalNames ==
    { <<"a", ".", "g">>, <<"b", ".", "g">>, <<"1", ".", "g">>, <<"1">>,
      <<"a">>, <<".", "g">>, <<"a", ".">>, <<"a", ".", "b", ".", "g">> }

\* Number to string, as + concatenates it
RECURSIVE ToStr(_)
ToStr(n) ==
    IF n < 10 THEN <<Digits[n + 1]>>
    ELSE Append(ToStr(n \div 10), Digits[(n % 10) + 1])

\* 0-based index of the last ".", or -1
RECURSIVE LastDot(_, _)
LastDot(name, i) ==
    IF i = 0 THEN -1
    ELSE IF name[i] = "." THEN i - 1 ELSE LastDot(name, i - 1)

\* path.extname on a name without separators: from the last "." on, and ""
\* without a ".", for a name whose only "." is its first character, and
\* for ".."
extname(name) ==
    LET d == LastDot(name, Len(name))
    IN  IF d = -1 \/ d = 0 \/ name = <<".", ".">> THEN <<>>
        ELSE SubSeq(name, d + 1, Len(name))

storageFilenameKeepsName(now, originalname) == originalname

\* storage.filename: Date.now() + path.extname(file.originalname)
storageFilename(now, originalname) == ToStr(now) \o extname(originalname)

NoFileText == "No file uploaded."

NewRequest ==
    [pc |-> "new", file |-> {}, filename |-> {}, at |-> 0,
     status |-> 0, body |-> [kind |-> "none"]]

ServerIdle ==
    /\ clock = 1
    /\ reqs = [q \in RequestIds |-> NewRequest]
    /\ uploadsDir = {}

ServerInit == ServerIdle

\* Date.now() moves on
Tick ==
    /\ clock < MaxClock
    /\ clock' = clock + 1
    /\ UNCHANGED <<reqs, uploadsDir, areaVars, viewerVars, formVars>>

\* the file written under name by request q, replacing what was there
Write(dir, name, q) == {e \in dir : e[1] # name} \cup {<<name, q>>}

\* upload.single('cityModel'): a file part is stored under the generated
\* name and becomes req.file; without one req.file stays undefined
multerSingle(q) ==
    /\ reqs[q].pc = "new"
    /\ \E f \in {{}} \cup { {n} : n \in OriginalNames } :
         IF f = {}
         THEN /\ reqs' = [reqs EXCEPT ![q] = [@ EXCEPT !.pc = "stored"]]
              /\ UNCHANGED uploadsDir
         ELSE LET name == storageFilename(clock, CHOOSE n \in f : TRUE)
              IN  /\ reqs' = [reqs EXCEPT ![q] =
                                 [@ EXCEPT !.pc = "stored", !.file = f,
                                           !.filename = {name}, !.at = clock]]
                  /\ uploadsDir' = Write(uploadsDir, name, q)
    /\ UNCHANGED <<clock, areaVars, viewerVars, formVars>>

\* the route handler's response
uploadResponse(r) ==
    IF r.file = {}
    THEN [status |-> 400, body |-> [kind |-> "text", text |-> NoFileText]]
    ELSE [status |-> 200,
          body |-> [kind |-> "json", success |-> TRUE,
                    filename |-> CHOOSE n \in r.filename : TRUE]]

\* app.post('/upload', ..., (req, res) => ...)
uploadHandler(q) ==
    /\ reqs[q].pc = "stored"
    /\ LET res == uploadResponse(reqs[q])
       IN  reqs' = [reqs EXCEPT ![q] = [@ EXCEPT !.pc = "done",
                                                !.status = res.status,
                                                !.body = res.body]]
    /\ UNCHANGED <<clock, uploadsDir, areaVars, viewerVars, formVars>>

-----------------------------------------------------------------------------
(* Specifications *)

InitArea == AreaInit /\ ViewerIdle /\ FormIdle /\ ServerIdle
AreaNext == ComputeArea
SpecArea == InitArea /\ [][AreaNext]_vars

ViewerNext == onProgress \/ onLoad \/ onError \/ animate
InitViewer == ViewerInit /\ AreaIdle /\ FormIdle /\ ServerIdle
SpecViewer == InitViewer /\ [][ViewerNext]_vars

\* the browser runs a scheduled animation frame callback
FairSpecViewer == InitViewer /\ [][ViewerNext]_vars /\ WF_vars(animate)

FormNext ==
    \E i \in SubmitIds :
        \/ Submit(i)
        \/ GhiResponded(i)
        \/ GhiBody(i)
        \/ UploadResponded(i)
        \/ UploadBody(i)
InitForm == FormInit /\ AreaIdle /\ ViewerIdle /\ ServerIdle
SpecForm == InitForm /\ [][FormNext]_vars

ServerNext ==
    \/ Tick
    \/ \E q \in RequestIds : multerSingle(q) \/ uploadHandler(q)
InitServer == ServerInit /\ AreaIdle /\ ViewerIdle /\ FormIdle
SpecServer == InitServer /\ [][ServerNext]_vars


-----------------------------------------------------------------------------
(* Claims *)

GhiFailures == {"network", "status", "malformed", "shape", "nokey"}

\* C1: within one submit, POST /upload is issued only after the GHI
\* retrieval has resolved, the navigation happens only after the upload
\* response has resolved with a success status, the two requests are never
\* in flight together, and neither is issued more than once.
SubmitIsSequential ==
    \A i \in SubmitIds :
        /\ run[i].uploadIssued > 0 =>
               run[i].ghi.settled /\ <<i, "ghi">> \notin inflight
        /\ run[i].navigated =>
               /\ run[i].uploadStatus \in 200..299
               /\ <<i, "upload">> \notin inflight
               /\ run[i].uploadIssued = 1
        /\ ~(<<i, "ghi">> \in inflight /\ <<i, "upload">> \in inflight)
        /\ run[i].ghiIssued <= 1
        /\ run[i].uploadIssued <= 1

SubmitNavigated ==
    \E i \in SubmitIds :
        run[i].navigated /\ run[i].pc = "done" /\ run[i].ghiIssued = 1

\* C2: on every failure of the GHI retrieval (network error, non-success
\* status, malformed body, missing date key) fetchGHI returns an absence
\* value without throwing, and the handler alerts and ends with no upload
\* request and no navigation.
GhiFailureAborts ==
    \A i \in SubmitIds :
        run[i].ghiOutcome \in GhiFailures =>
            /\ run[i].ghi.settled /\ ~run[i].ghi.threw
            /\ run[i].ghi.value = Absent
            /\ run[i].alerted /\ ~run[i].caught
            /\ run[i].pc = "done"
            /\ run[i].uploadIssued = 0 /\ <<i, "upload">> \notin inflight
            /\ ~run[i].navigated

GhiFailedEachWay ==
    /\ \E i \in SubmitIds : run[i].ghiOutcome \in {"malformed", "shape", "nokey"}
    /\ \E i \in SubmitIds : run[i].ghiOutcome \in {"network", "status"}

Responded(q) == reqs[q].pc = "done"
OriginalName(q) == CHOOSE n \in reqs[q].file : TRUE

\* what every response has, whatever the claim about the name
ResponseShape(q) ==
    IF reqs[q].file = {}
    THEN /\ reqs[q].status = 400
         /\ reqs[q].body = [kind |-> "text", text |-> NoFileText]
         /\ \A e \in uploadsDir : e[2] # q
    ELSE /\ reqs[q].status = 200
         /\ reqs[q].body.kind = "json"
         /\ reqs[q].body.success = TRUE
         /\ reqs[q].body.filename # <<>>
         /\ reqs[q].filename = {reqs[q].body.filename}
         /\ \E e \in uploadsDir : e[1] = reqs[q].body.filename
         /\ reqs[q].body.filename
                = ToStr(reqs[q].at) \o extname(OriginalName(q))

ParsedOrDefault(p) ==
    LET g == parseFloat(p.ghi) IN IF g.k = "nan" THEN Fin(DefaultGhi) ELSE g

\* C4: the GHI used is 5.0 when the ghi parameter is omitted or does not
\* parse as a number, and the parsed number whenever it does parse.
GhiDefaultOnlyWhenUnparsable ==
    overlay.written => overlay.ghi = ParsedOrDefault(params)

\* C5: the overlay is written only after the load has succeeded and every
\* child has been traversed, with the full accumulated total; never while
\* loading, after a load failure, or without a model parameter.
SceneTotalNeverPartial ==
    /\ overlay.written =>
           /\ loadState = "loaded"
           /\ ~FalsyStr(params.model)
           /\ traversed = Len(cityModel)
           /\ overlay.total = ToFixed2(totalPotential)
    /\ loadState \in {"none", "pending", "failed"} => overlay = NoOverlay

OverlayWrittenAfterLoad ==
    /\ overlay.written /\ Len(cityModel) = 2
    /\ ~Counted(cityModel[1]) /\ Counted(cityModel[2])
    /\ totalPotential.k = "fin" /\ totalPotential.v > 0

RemoveAt(seq, i) == SubSeq(seq, 1, i - 1) \o SubSeq(seq, i + 1, Len(seq))

TurnedAway(child) == Counted(child) /\ CosIncidence(child.matrixWorld) <= 0

\* the incidence factor of every mesh is max(0, dot) and never negative,
\* and a mesh at a right angle to the sun or turned away from it has
\* factor 0 and leaves the Scene Total what it is without that mesh
ZeroContribution ==
    \A i \in DOMAIN cityModel :
        LET child == cityModel[i]
        IN  Counted(child) =>
              /\ IncidenceFactor(child.matrixWorld) >= 0
              /\ IncidenceFactor(child.matrixWorld)
                     = Max(0, CosIncidence(child.matrixWorld))
              /\ TurnedAway(child) =>
                     /\ IncidenceFactor(child.matrixWorld) = 0
                     /\ Energy(GhiUsed(params), child) = Fin(0)
                     /\ totalPotential
                            = Traverse(RemoveAt(cityModel, i),
                                       GhiUsed(params), 1, Fin(0)).total

AreaIgnoresPartialGroup ==
    areaDone =>
        /\ positions = <<>> => area = 0
        /\ area = calculateSurfaceArea(
                      SubSeq(positions, 1, 9 * (Len(positions) \div 9)))

RECURSIVE SumOver(_, _, _)
SumOver(S, model, ghi) ==
    IF S = {} THEN Fin(0)
    ELSE LET i == CHOOSE x \in S : TRUE
         IN  FAdd(SumOver(S \ {i}, model, ghi), Energy(ghi, model[i]))

\* C8: the Scene Total is the sum of GHI x area x incidence x 0.15 over
\* exactly the meshes with a geometry that has a position attribute; a
\* mesh without one is skipped and does not stop the traversal, and a
\* scene without meshes gives exactly 0.
SceneTotalIsSum ==
    loadState = "loaded" =>
        /\ totalPotential
               = SumOver({i \in DOMAIN cityModel : Counted(cityModel[i])},
                         cityModel, GhiUsed(params))
        /\ traversed = Len(cityModel)
        /\ overlay.written
        /\ (\A i \in DOMAIN cityModel : ~cityModel[i].isMesh) =>
               totalPotential = Fin(0) /\ overlay.total = Fin(0)

SkippedThenCounted ==
    /\ loadState = "loaded" /\ Len(cityModel) = 2
    /\ cityModel[1].isMesh /\ cityModel[1].hasGeometry
    /\ ~cityModel[1].hasPosition
    /\ Counted(cityModel[2])
    /\ totalPotential.k = "fin" /\ totalPotential.v > 0

\* C9: after construction a frame callback is always scheduled, whatever
\* the frame work does, and a frame is always eventually followed by
\* another, whatever the state of the model load.
RenderLoopRuns == [](rafPending) /\ []<><<animate>>_vars

FramesAfterFailedLoad ==
    loadState = "failed" /\ lastRender = "threw" /\ frames = 0

\* C10: any two successful uploads are stored under distinct filenames,
\* and the filename returned to a client still holds that client's file.
UploadsKeepDistinctNames ==
    /\ \A q1, q2 \in RequestIds :
           (q1 # q2 /\ reqs[q1].file # {} /\ reqs[q2].file # {}) =>
               reqs[q1].filename # reqs[q2].filename
    /\ \A q \in RequestIds :
           (Responded(q) /\ reqs[q].status = 200) =>
               <<reqs[q].body.filename, q>> \in uploadsDir

=============================================================================
